---- MODULE Spec2Model ----
(***************************************************************************)
(* Virtual Lab: the meeting simulation engine of src/app.py.               *)
(*                                                                         *)
(* The state is Streamlit's st.session_state of one browser session, the   *)
(* session record persisted by save_session_data, and the position of the  *)
(* running script inside run_single_meeting.  The sidebar's navigation     *)
(* buttons (app.py 1013-1017) only set current_stage, so every view is     *)
(* reachable from every idle state; current_stage is therefore not part of *)
(* the state and each button is guarded by its own `disabled` expression.  *)
(* The uuid4 `id` fields of meetings and of meeting messages are written   *)
(* once and never read by the code; they are left out of the records.      *)
(***************************************************************************)
EXTENDS Naturals, Sequences, FiniteSets, TLC

VARIABLES
    summary,              \* st.session_state.summary
    people,               \* st.session_state.people
    research_findings,    \* st.session_state.research_findings
    meetings,             \* st.session_state.meetings
    api_key,              \* st.session_state.api_key
    is_running_meetings,  \* st.session_state.is_running_meetings
    store,                \* the session's JSON file written by save_session_data
    pc,                   \* position of the running script
    meeting_idx,          \* argument of the run_single_meeting call in progress
    handler,              \* button handler the running script executes
    outcome,              \* how the run_single_meeting call of this script run went
    last_handler,         \* button handler of the previous script run, if it ended normally
    repeat,               \* the run_all_meetings in progress directly follows another one
    called,               \* the running script has called the gateway
    net_failures,         \* gateway calls that failed with an API error so far
    restarts,             \* browser sessions started so far
    run_start,            \* the meeting as run_single_meeting found it when it was called
    summary_request,      \* transcripts sent by the summary requests of the running script
    prompts_file,         \* prompts.json as written by save_prompts
    last_set,             \* per template id, the content last set and not reset since
    io,                   \* the last library call: its arguments and what it returned
    session_file,         \* a session's JSON file that several clients work on
    clients,              \* per client, the copy of the session record it holds
    sessions_metadata,    \* metadata.json: the list of sessions
    session_files,        \* the session data files, by session id
    current_session_id,   \* st.session_state.current_session_id
    sidebar_pc,           \* "rendered", or "rerun" after st.rerun()
    uuid_count,           \* session ids issued so far
    cookies,              \* per client, the Flask session it presents
    config                \* config.json of the backend

vars ==
    <<summary, people, research_findings, meetings, api_key, is_running_meetings,
      store, pc, meeting_idx, handler, outcome, last_handler, repeat, called,
      net_failures, restarts, run_start, summary_request, prompts_file, last_set, io,
      session_file, clients, sessions_metadata, session_files, current_session_id,
      sidebar_pc, uuid_count, cookies, config>>

SessionVars ==
    <<summary, people, research_findings, meetings, api_key, is_running_meetings,
      store, pc, meeting_idx, handler, outcome, last_handler, repeat, called,
      net_failures, restarts, run_start, summary_request>>

ClientVars == <<session_file, clients>>

\* What the handlers of one browser session leave alone.
SidebarVars ==
    <<sessions_metadata, session_files, current_session_id, sidebar_pc, uuid_count>>

BackendVars == <<cookies, config>>

LibraryVars == <<prompts_file, last_set, io, ClientVars, SidebarVars, BackendVars>>

\* What the library calls leave alone besides the session.
RestVars == <<ClientVars, SidebarVars, BackendVars>>

-----------------------------------------------------------------------------
(* Bounds of the model *)

MaxNetFailures == 1

MaxRestarts == 1

(* Program constants *)

max_turns == 10

None == "None"

-----------------------------------------------------------------------------
(* Data the language model can return *)

ReplyText == "reply"

ErrNoKey == "Error: API key not configured. Please set your API key in Settings."

ErrApi == "Error: timeout"

Roster ==
    << [id |-> "p1", title |-> "Economist", description |-> "markets"],
       [id |-> "p2", title |-> "Engineer", description |-> "systems"],
       [id |-> "p3", title |-> "Ethicist", description |-> "fairness"] >>

Rosters == { <<>>, Roster }

Finding1 ==
    [id |-> "f1", topic |-> "Water Policy", description |-> "desalination", citation |-> "c1"]

Finding2 ==
    [id |-> "f2", topic |-> "Transit", description |-> "metro", citation |-> "c2"]

FindingLists == { <<>>, <<Finding1, Finding2>>, <<Finding2>> }

ApiKeys == {"", "sk-key"}

DiscoveryMessages ==
    << [role |-> "user", content |-> "hello"], [role |-> "assistant", content |-> "what task?"] >>

-----------------------------------------------------------------------------
(* Gateway *)

SendMessage ==
    IF api_key = ""
    THEN {ErrNoKey}
    ELSE {ReplyText} \cup (IF net_failures < MaxNetFailures THEN {ErrApi} ELSE {})

Charge(r) == IF r = ErrApi THEN net_failures + 1 ELSE net_failures

-----------------------------------------------------------------------------
(* Session store *)

\* `valid` tells whether the file holds a complete JSON document, that is
\* whether json.load of load_session_data returns or raises.
Record(s, p, f, m) ==
    [summary |-> s, people |-> p, research_findings |-> f, meetings |-> m, valid |-> TRUE]

\* The file as open(..., 'w') leaves it until json.dump has written it all.
TornRecord ==
    [summary |-> "", people |-> <<>>, research_findings |-> <<>>, meetings |-> <<>>,
     valid |-> FALSE]

DefaultRecord == Record("", <<>>, <<>>, <<>>)

\* A session file left by an earlier browser session, up to the research stage.
ResearchedRecord == Record(ReplyText, Roster, <<Finding1, Finding2>>, <<>>)

StartRecords == {DefaultRecord, ResearchedRecord}

-----------------------------------------------------------------------------
(* Text.  A text is a sequence of pieces; a placeholder such as {SUMMARY} is *)
(* one piece, so that str.replace can be followed piece by piece.            *)

RECURSIVE Replace(_, _, _)
Replace(text, token, value) ==
    IF text = <<>> THEN <<>>
    ELSE (IF Head(text) = token THEN value ELSE <<Head(text)>>)
             \o Replace(Tail(text), token, value)

Truthy(x) == x \notin {None, ""}

-----------------------------------------------------------------------------
(* Prompt store: DEFAULT_PROMPTS, load_prompts, save_prompts, get_prompt *)

ExpertId == "meeting-expert-instructions"

SubReportId == "meeting-sub-report-prompt"

DefaultIds == {ExpertId, SubReportId}

\* With an id a client of /api/prompts can post and DEFAULT_PROMPTS lacks.
PromptIds == DefaultIds \cup {"house-style"}

DEFAULT_PROMPTS ==
    [id \in DefaultIds |->
        IF id = ExpertId
        THEN << "This is who you are: ", "{PERSON_DESCRIPTION}",
                "\n\nMeeting context: ", "{SUMMARY}",
                "\n\nCurrent Focus: ", "{MEETING_DESCRIPTION}",
                "\n\nRespond to your colleagues in one simple paragraph. Be focused on the task and always raise your unique perspective and speak out and collaborate with your brilliant team to build great ideas." >>
        ELSE << "You are creating a summary report for a meeting. The meeting was about:\n\nTopic: ",
                "{MEETING_TOPIC}",
                "\nDescription: ", "{MEETING_DESCRIPTION}",
                "\n\nHere is the full conversation transcript:\n", "{TRANSCRIPT}",
                "\n\nPlease create a concise summary report that captures:\n1. The main insights and perspectives shared by team members\n2. Key decisions or recommendations that emerged\n3. Important concerns or considerations raised\n4. Next steps or action items if any were discussed\n\nWrite this as a professional summary report in 2-3 paragraphs." >>]

\* What a user types into the text area of a template.
EditedPrompt == << "Speak as ", "{PERSON_DESCRIPTION}", " about ", "{MEETING_DESCRIPTION}" >>

PromptContents(id) ==
    {EditedPrompt} \cup (IF id \in DefaultIds THEN {DEFAULT_PROMPTS[id]} ELSE {})

\* k.replace("-", " ").title()
TitleOf(k) ==
    CASE k = ExpertId -> "Meeting Expert Instructions"
      [] k = SubReportId -> "Meeting Sub Report Prompt"
      [] OTHER -> "House Style"

NoFile == [exists |-> FALSE, prompts |-> {}]

\* Swaps the two fields: the content goes under "name".
SavePromptsSwapped(prompts) ==
    [exists |-> TRUE,
     prompts |-> {[id |-> k, content |-> <<TitleOf(k)>>, name |-> prompts[k]] :
                     k \in DOMAIN prompts}]

save_prompts(prompts) ==
    [exists |-> TRUE,
     prompts |-> {[id |-> k, content |-> prompts[k], name |-> TitleOf(k)] :
                     k \in DOMAIN prompts}]

\* Returns the dict and the file as the call leaves it.
load_prompts(file) ==
    IF file.exists
    THEN [dict |-> [k \in {e.id : e \in file.prompts} |->
                       (CHOOSE e \in file.prompts : e.id = k).content],
          file |-> file]
    ELSE [dict |-> DEFAULT_PROMPTS, file |-> save_prompts(DEFAULT_PROMPTS)]

get_prompt(file, prompt_id) ==
    LET loaded == load_prompts(file)
    IN  [value |-> IF prompt_id \in DOMAIN loaded.dict THEN loaded.dict[prompt_id]
                   ELSE IF prompt_id \in DOMAIN DEFAULT_PROMPTS
                        THEN DEFAULT_PROMPTS[prompt_id]
                        ELSE <<>>,
         file |-> loaded.file]

\* Dicts a prompts file can hold: a whole set, an edited one, a partial one.
StoredDicts ==
    {d \in UNION {[ids -> {EditedPrompt} \cup {DEFAULT_PROMPTS[i] : i \in DefaultIds}] :
                     ids \in SUBSET PromptIds} :
        \A k \in DOMAIN d : d[k] \in PromptContents(k)}

Unset == [set |-> FALSE, content |-> <<>>]

LastSetOf(file) ==
    [id \in PromptIds |->
        IF file.exists /\ id \in DOMAIN load_prompts(file).dict
        THEN [set |-> TRUE, content |-> load_prompts(file).dict[id]]
        ELSE Unset]

NoCall == [op |-> "none"]

-----------------------------------------------------------------------------
(* Gateway: AnthropicService.send_message and OpenAIService.send_message *)

Services == {"app", "backend"}

\* What client.messages.create / client.chat.completions.create can do.
BackendOutcomes == {"text", "no_content", "connection", "status"}

ExceptionText(o) ==
    CASE o = "connection" -> "Connection error."
      [] o = "status" -> "Error code: 429"
      [] o = "no_content" -> "list index out of range"
      [] OTHER -> ""

WellFormed == << [role |-> "user", content |-> "hello"] >>

\* A message dict without "role": m["role"] raises KeyError.
Malformed == << [role |-> "user", content |-> "hello"], [content |-> "hi"] >>

\* A message dict without "content": m["content"] raises KeyError.
Contentless == << [role |-> "assistant"] >>

MessageLists == {<<>>, WellFormed, Malformed, Contentless}

SystemPrompts == {None, "You are a helpful assistant."}

GatewayInputs ==
    [service : Services, api_key : ApiKeys, messages : MessageLists,
     system_prompt : SystemPrompts, outcome : BackendOutcomes]

Returned(v) == [raised |-> FALSE, value |-> v]

Raised(text) == [raised |-> TRUE, value |-> text]

\* The request the service builds: the system prompt is a keyword argument in
\* app.py and a first message in backend.py.
ApiRequest(in) ==
    LET api_messages == [k \in DOMAIN in.messages |->
                            [role |-> in.messages[k].role, content |-> in.messages[k].content]]
    IN  IF in.service = "app"
        THEN [messages |-> api_messages, system |-> in.system_prompt]
        ELSE [messages |-> (IF Truthy(in.system_prompt)
                            THEN <<[role |-> "system", content |-> in.system_prompt]>>
                            ELSE <<>>) \o api_messages,
              system |-> None]

\* The body of the try block.
TryBlock(in) ==
    IF \E k \in DOMAIN in.messages : "role" \notin DOMAIN in.messages[k]
    THEN Raised("'role'")
    ELSE IF \E k \in DOMAIN in.messages : "content" \notin DOMAIN in.messages[k]
    THEN Raised("'content'")
    ELSE IF in.outcome = "text"
         THEN Returned(ReplyText)
         ELSE Raised(ExceptionText(in.outcome))

\* No except clause: the exception leaves send_message.
ExceptMissing(r) == r

\* except Exception as e: return f"Error: {str(e)}"
Except(r) == IF r.raised THEN Returned("Error: " \o r.value) ELSE r

send_message(in) ==
    IF in.api_key = "" THEN Returned(ErrNoKey) ELSE Except(TryBlock(in))

-----------------------------------------------------------------------------
(* Meetings *)

SeedMessage(topic, description) ==
    [participant_name |-> "Meeting Topic: " \o topic,
     content |-> description,
     participant_id |-> None]

NoRun == [turn_count |-> 0, messages |-> <<>>]

NewMeeting(finding) ==
    [topic |-> finding.topic,
     description |-> finding.description,
     messages |-> << SeedMessage(finding.topic, finding.description) >>,
     is_complete |-> FALSE,
     turn_count |-> 0,
     summary_report |-> None]

(* A session record several clients hold: two browser sessions of app.py,   *)
(* or two callers of GET / PUT /api/sessions/<session_id> of backend.py.    *)

Clients == {"a", "b"}

NotLoaded == [loaded |-> FALSE, data |-> DefaultRecord]

ClientsAtRest ==
    /\ session_file = DefaultRecord
    /\ clients = [c \in Clients |-> NotLoaded]

(* Sessions of app.py: metadata.json, create_session, delete_session *)

SessionId(n) == "s" \o ToString(n)

\* f"Session {len(sessions) + 1}"
SessionName(n) == "Session " \o ToString(n)

NoFiles == [id \in {} |-> DefaultRecord]

\* open(sessions_dir / f"{session_id}.json", 'w') and json.dump(data).
WriteFile(files, session_id, data) ==
    [id \in DOMAIN files \cup {session_id} |-> IF id = session_id THEN data ELSE files[id]]

\* session_file.unlink() when the file exists.
Unlink(files, session_id) == [id \in DOMAIN files \ {session_id} |-> files[id]]

\* init_session_state on an empty sessions directory: create_session("Session 1").
SidebarAtRest ==
    /\ sessions_metadata = << [id |-> SessionId(1), name |-> SessionName(1)] >>
    /\ session_files = NoFiles
    /\ current_session_id = SessionId(1)
    /\ sidebar_pc = "rendered"
    /\ uuid_count = 1

(* Flask sessions and config.json of backend.py *)

\* A client that never logged in: no 'user' in its session.  The field "last"
\* remembers the client's last call of an authentication route.
NoCookie == [user |-> None, last |-> "never"]

\* config.json does not exist.
NoConfig == [exists |-> FALSE, api_key |-> ""]

BackendAtRest ==
    /\ cookies = [c \in Clients |-> NoCookie]
    /\ config = NoConfig

OthersAtRest == ClientsAtRest /\ SidebarAtRest /\ BackendAtRest

Init ==
    /\ store \in StartRecords
    /\ summary = store.summary
    /\ people = store.people
    /\ research_findings = store.research_findings
    /\ meetings = store.meetings
    /\ api_key \in ApiKeys
    /\ is_running_meetings = FALSE
    /\ pc = "idle"
    /\ meeting_idx = 0
    /\ handler = "none"
    /\ outcome = "none"
    /\ last_handler = "other"
    /\ repeat = FALSE
    /\ called = FALSE
    /\ net_failures = 0
    /\ restarts = 0
    /\ run_start = NoRun
    /\ summary_request = <<>>
    /\ prompts_file = NoFile
    /\ last_set = [id \in PromptIds |-> Unset]
    /\ io = NoCall
    /\ OthersAtRest

-----------------------------------------------------------------------------
(* Handlers that run to their st.rerun() without a yield point a claim is about *)

Idle == pc = "idle"

EndOfScript(h) ==
    /\ pc' = "idle"
    /\ handler' = "none"
    /\ last_handler' = h
    /\ repeat' = FALSE
    /\ called' = FALSE
    /\ UNCHANGED <<api_key, is_running_meetings, meeting_idx, outcome, restarts,
                   run_start, summary_request, LibraryVars>>

NoParse == [ok |-> FALSE, list |-> <<>>]

Parsed(lists, r) ==
    IF r = ReplyText THEN {[ok |-> TRUE, list |-> l] : l \in lists} \cup {NoParse} ELSE {NoParse}

generate_summary ==
    /\ Idle
    /\ Len(DiscoveryMessages) >= 2
    /\ \E r \in SendMessage :
        /\ summary' = r
        /\ net_failures' = Charge(r)
        /\ store' = Record(r, people, research_findings, meetings)
    /\ UNCHANGED <<people, research_findings, meetings>>
    /\ EndOfScript("other")

generate_people ==
    /\ Idle
    /\ summary # ""
    /\ \E r \in SendMessage : \E p \in Parsed(Rosters, r) :
        /\ people' = IF p.ok THEN p.list ELSE people
        /\ net_failures' = Charge(r)
        /\ store' = Record(summary, people', research_findings, meetings)
    /\ UNCHANGED <<summary, research_findings, meetings>>
    /\ EndOfScript("other")

\* The Save button of a persona in people_view; the new title is the old one.
EditedPersons == {1}

NewDescription == "edited"

SavePerson(i) ==
    /\ Idle
    /\ i \in DOMAIN people
    /\ people' = [people EXCEPT ![i].description = NewDescription]
    /\ store' = Record(summary, people', research_findings, meetings)
    /\ UNCHANGED <<summary, research_findings, meetings, net_failures>>
    /\ EndOfScript("other")

\* Research generation that rebuilds the meeting set from the new findings.
GenerateResearchReconciles ==
    /\ Idle
    /\ (people # <<>> \/ summary # "")
    /\ \E r \in SendMessage : \E p \in Parsed(FindingLists, r) :
        /\ research_findings' = IF p.ok THEN p.list ELSE research_findings
        /\ meetings' = IF p.ok /\ meetings # <<>>
                        THEN [i \in DOMAIN p.list |-> NewMeeting(p.list[i])]
                        ELSE meetings
        /\ net_failures' = Charge(r)
        /\ store' = Record(summary, people, research_findings', meetings')
    /\ UNCHANGED <<summary, people>>
    /\ EndOfScript("other")

generate_research ==
    /\ Idle
    /\ (people # <<>> \/ summary # "")
    /\ \E r \in SendMessage : \E p \in Parsed(FindingLists, r) :
        /\ research_findings' = IF p.ok THEN p.list ELSE research_findings
        /\ net_failures' = Charge(r)
        /\ store' = Record(summary, people, research_findings', meetings)
    /\ UNCHANGED <<summary, people, meetings>>
    /\ EndOfScript("other")

\* Initialization without the `if not st.session_state.meetings` of line 559.
InitializeAlways ==
    /\ Idle
    /\ research_findings # <<>>
    /\ meetings' = [i \in DOMAIN research_findings |-> NewMeeting(research_findings[i])]
    /\ store' = Record(summary, people, research_findings, meetings')
    /\ UNCHANGED <<summary, people, research_findings, net_failures>>
    /\ EndOfScript("initialize")

initialize_meetings ==
    /\ Idle
    /\ research_findings # <<>>
    /\ IF meetings = <<>>
       THEN /\ meetings' = [i \in DOMAIN research_findings |-> NewMeeting(research_findings[i])]
            /\ store' = Record(summary, people, research_findings, meetings')
       ELSE UNCHANGED <<meetings, store>>
    /\ UNCHANGED <<summary, people, research_findings, net_failures>>
    /\ EndOfScript("initialize")

\* Reset that forgets line 634 (turn_count = 0).
ResetKeepsCount(m) ==
    [m EXCEPT !.messages = << SeedMessage(m.topic, m.description) >>,
              !.is_complete = FALSE,
              !.summary_report = None]

\* Reset that forgets line 635 (summary_report = None).
ResetKeepsSummary(m) ==
    [m EXCEPT !.messages = << SeedMessage(m.topic, m.description) >>,
              !.is_complete = FALSE,
              !.turn_count = 0]

ResetOf(m) ==
    [m EXCEPT !.messages = << SeedMessage(m.topic, m.description) >>,
              !.is_complete = FALSE,
              !.turn_count = 0,
              !.summary_report = None]

ResetMeeting(selected_idx) ==
    /\ Idle
    /\ selected_idx \in DOMAIN meetings
    /\ meetings' = [meetings EXCEPT ![selected_idx] = ResetOf(@)]
    /\ store' = Record(summary, people, research_findings, meetings')
    /\ UNCHANGED <<summary, people, research_findings, net_failures>>
    /\ EndOfScript("reset")

-----------------------------------------------------------------------------
(* run_single_meeting and run_all_meetings.  The script can be stopped only *)
(* where it touches st.session_state (Streamlit's yield points) or by the   *)
(* process ending; pc names the statement the script is about to execute.   *)

\* Loop condition written with <= instead of <.
LoopGuardInclusive(m) == m.turn_count <= max_turns

\* Loop that counts the turns of this call instead of the stored counter.
LoopGuardCountsRun(m) == m.turn_count - run_start.turn_count < max_turns

\* Loop whose body runs at least once per call.
LoopGuardAtLeastOnce(m) ==
    m.turn_count < max_turns \/ m.messages = run_start.messages

LoopGuard(m) == m.turn_count < max_turns

\* Actor picked from the transcript length instead of the turn counter.
NextActorByTranscript(m, roster) == roster[(Len(m.messages) % Len(roster)) + 1]

NextActor(m, roster) == roster[(m.turn_count % Len(roster)) + 1]

\* Turn that counts an error reply but keeps it out of the transcript.
AppendTurnDropsErrors(m, person, response) ==
    IF response \in {ErrNoKey, ErrApi}
    THEN [m EXCEPT !.turn_count = @ + 1]
    ELSE [m EXCEPT !.messages = Append(@, [participant_name |-> person.title,
                                           content |-> response,
                                           participant_id |-> person.id]),
                   !.turn_count = @ + 1]

AppendTurn(m, person, response) ==
    [m EXCEPT !.messages = Append(@, [participant_name |-> person.title,
                                      content |-> response,
                                      participant_id |-> person.id]),
              !.turn_count = @ + 1]

\* Run that forgets line 684 (is_complete = True).
MarkCompleteForgets(m) == m

MarkComplete(m) == [m EXCEPT !.is_complete = TRUE]

\* Transcript sliced with [2:] instead of [1:].
TranscriptSkipsFirstTurn(m) ==
    LET Spoken(msg) == msg.participant_id # None \/ msg.participant_name = "You"
    IN  SelectSeq(Tail(Tail(m.messages)), Spoken)

\* The messages generate_meeting_summary puts into the transcript of its request.
Transcript(m) ==
    LET Spoken(msg) == msg.participant_id # None \/ msg.participant_name = "You"
    IN  SelectSeq(Tail(m.messages), Spoken)

\* Summary that is also appended to the transcript.
StoreSummaryAsMessage(m, response) ==
    [m EXCEPT !.summary_report = response,
              !.messages = Append(@, [participant_name |-> "Summary",
                                      content |-> response,
                                      participant_id |-> None])]

StoreSummary(m, response) == [m EXCEPT !.summary_report = response]

Incomplete == {i \in DOMAIN meetings : ~meetings[i].is_complete}

FirstIncomplete == CHOOSE i \in Incomplete : \A j \in Incomplete : i <= j

Enter(idx, h) ==
    /\ is_running_meetings' = TRUE
    /\ meeting_idx' = idx
    /\ handler' = h
    /\ outcome' = "running"
    /\ called' = FALSE
    /\ run_start' = [turn_count |-> meetings[idx].turn_count,
                     messages |-> meetings[idx].messages]
    /\ summary_request' = <<>>
    /\ pc' = "loop"

RunThisMeeting(selected_idx) ==
    /\ Idle
    /\ selected_idx \in DOMAIN meetings
    /\ ~(meetings[selected_idx].is_complete \/ is_running_meetings)
    /\ Enter(selected_idx, "run_single")
    /\ last_handler' = "other"
    /\ repeat' = FALSE
    /\ UNCHANGED <<summary, people, research_findings, meetings, api_key, store,
                   net_failures, restarts, LibraryVars>>

RunAllMeetings ==
    /\ Idle
    /\ meetings # <<>>
    /\ ~is_running_meetings
    /\ IF Incomplete = {}
       THEN /\ pc' = "idle"
            /\ handler' = "none"
            /\ last_handler' = "run_all"
            /\ repeat' = FALSE
            /\ called' = FALSE
            /\ UNCHANGED <<is_running_meetings, meeting_idx, outcome, run_start,
                           summary_request>>
       ELSE /\ Enter(FirstIncomplete, "run_all")
            /\ repeat' = (last_handler = "run_all")
            /\ last_handler' = "other"
    /\ UNCHANGED <<summary, people, research_findings, meetings, api_key, store,
                   net_failures, restarts, LibraryVars>>

Turn ==
    /\ pc = "loop"
    /\ LoopGuard(meetings[meeting_idx])
    /\ Len(people) > 0
    /\ \E response \in SendMessage :
        /\ meetings' = [meetings EXCEPT ![meeting_idx] =
                            AppendTurn(@, NextActor(@, people), response)]
        /\ net_failures' = Charge(response)
    /\ called' = TRUE
    /\ pc' = "save_turn"
    /\ UNCHANGED <<summary, people, research_findings, api_key, is_running_meetings,
                   store, meeting_idx, handler, outcome, last_handler, repeat, restarts,
                   run_start, summary_request, LibraryVars>>

TurnRaises ==
    /\ pc = "loop"
    /\ LoopGuard(meetings[meeting_idx])
    /\ Len(people) = 0
    /\ pc' = "idle"
    /\ handler' = "none"
    /\ outcome' = "ZeroDivisionError"
    /\ run_start' = NoRun
    /\ summary_request' = <<>>
    /\ UNCHANGED <<summary, people, research_findings, meetings, api_key,
                   is_running_meetings, store, meeting_idx, last_handler, repeat, called,
                   net_failures, restarts, LibraryVars>>

SaveTurn ==
    /\ pc = "save_turn"
    /\ store' = Record(summary, people, research_findings, meetings)
    /\ pc' = "loop"
    /\ UNCHANGED <<summary, people, research_findings, meetings, api_key,
                   is_running_meetings, meeting_idx, handler, outcome, last_handler, repeat,
                   called, net_failures, restarts, run_start, summary_request,
                   LibraryVars>>

Complete ==
    /\ pc = "loop"
    /\ ~LoopGuard(meetings[meeting_idx])
    /\ meetings' = [meetings EXCEPT ![meeting_idx] = MarkComplete(@)]
    /\ pc' = "summary"
    /\ UNCHANGED <<summary, people, research_findings, api_key, is_running_meetings,
                   store, meeting_idx, handler, outcome, last_handler, repeat, called,
                   net_failures, restarts, run_start, summary_request, LibraryVars>>

generate_meeting_summary ==
    /\ pc = "summary"
    /\ \E response \in SendMessage :
        /\ meetings' = [meetings EXCEPT ![meeting_idx] = StoreSummary(@, response)]
        /\ net_failures' = Charge(response)
    /\ summary_request' = Append(summary_request, Transcript(meetings[meeting_idx]))
    /\ called' = TRUE
    /\ pc' = "save_summary"
    /\ UNCHANGED <<summary, people, research_findings, api_key, is_running_meetings,
                   store, meeting_idx, handler, outcome, last_handler, repeat, restarts,
                   run_start, LibraryVars>>

SaveSummary ==
    /\ pc = "save_summary"
    /\ store' = Record(summary, people, research_findings, meetings)
    /\ pc' = "finish"
    /\ UNCHANGED <<summary, people, research_findings, meetings, api_key,
                   is_running_meetings, meeting_idx, handler, outcome, last_handler, repeat,
                   called, net_failures, restarts, run_start, summary_request,
                   LibraryVars>>

Finish ==
    /\ pc = "finish"
    /\ is_running_meetings' = FALSE
    /\ outcome' = "finished"
    /\ pc' = "rerun"
    /\ UNCHANGED <<summary, people, research_findings, meetings, api_key, store,
                   meeting_idx, handler, last_handler, repeat, called, net_failures, restarts,
                   run_start, summary_request, LibraryVars>>

Rerun ==
    /\ pc = "rerun"
    /\ pc' = "idle"
    /\ last_handler' = (IF handler = "run_all" THEN "run_all" ELSE "other")
    /\ handler' = "none"
    /\ repeat' = FALSE
    /\ called' = FALSE
    /\ outcome' = "none"
    /\ run_start' = NoRun
    /\ summary_request' = <<>>
    /\ UNCHANGED <<summary, people, research_findings, meetings, api_key,
                   is_running_meetings, store, meeting_idx, net_failures, restarts,
                   LibraryVars>>

Interrupt ==
    /\ pc \in {"loop", "save_turn", "summary", "save_summary", "finish"}
    /\ pc = "loop" => (LoopGuard(meetings[meeting_idx]) \/ ~called)
    /\ pc' = "idle"
    /\ handler' = "none"
    /\ outcome' = "interrupted"
    /\ last_handler' = "other"
    /\ repeat' = FALSE
    /\ called' = FALSE
    /\ run_start' = NoRun
    /\ summary_request' = <<>>
    /\ UNCHANGED <<summary, people, research_findings, meetings, api_key,
                   is_running_meetings, store, meeting_idx, net_failures, restarts,
                   LibraryVars>>

\* A new browser session: init_session_state runs again.  When json.load
\* raises, `initialized` is already set and nothing of the record is in
\* st.session_state, so every later script run fails as well.
NewBrowserSession ==
    /\ summary' = store'.summary
    /\ people' = store'.people
    /\ research_findings' = store'.research_findings
    /\ meetings' = store'.meetings
    /\ is_running_meetings' = FALSE
    /\ pc' = (IF store'.valid THEN "idle" ELSE "load_error")
    /\ handler' = "none"
    /\ outcome' = "none"
    /\ last_handler' = "other"
    /\ repeat' = FALSE
    /\ called' = FALSE
    /\ run_start' = NoRun
    /\ summary_request' = <<>>
    /\ UNCHANGED <<api_key, meeting_idx, net_failures, LibraryVars>>

\* The process ends (at any statement) and the session is opened again.
Restart ==
    /\ restarts < MaxRestarts
    /\ restarts' = restarts + 1
    /\ UNCHANGED store
    /\ NewBrowserSession

\* The process ends inside save_session_data, after open(..., 'w') has
\* truncated the file and before json.dump has written the whole record.
CrashInSave ==
    /\ pc \in {"save_turn", "save_summary"}
    /\ restarts < MaxRestarts
    /\ restarts' = restarts + 1
    /\ store' = TornRecord
    /\ NewBrowserSession

RunStep ==
    \/ Turn
    \/ SaveTurn
    \/ Complete
    \/ generate_meeting_summary
    \/ SaveSummary
    \/ Finish
    \/ Rerun

Next ==
    \/ generate_summary
    \/ generate_people
    \/ \E i \in EditedPersons : SavePerson(i)
    \/ generate_research
    \/ initialize_meetings
    \/ \E i \in DOMAIN meetings : RunThisMeeting(i)
    \/ RunAllMeetings
    \/ \E i \in DOMAIN meetings : ResetMeeting(i)
    \/ Turn
    \/ TurnRaises
    \/ SaveTurn
    \/ Complete
    \/ generate_meeting_summary
    \/ SaveSummary
    \/ Finish
    \/ Rerun
    \/ Interrupt
    \/ Restart
    \/ CrashInSave

Spec == Init /\ [][Next]_vars

FairSpec == Spec /\ WF_vars(RunStep)

-----------------------------------------------------------------------------
(* Turn-prompt compilers: build_meeting_history of app.py and the first half *)
(* of get_meeting_response of backend.py.                                    *)

Acknowledgment ==
    [role |-> "assistant",
     content |-> << "Understood. I'm ready to participate in the meeting." >>]

InstructionPrompt(template, person, summary_text, meeting) ==
    Replace(Replace(Replace(template,
                            "{PERSON_DESCRIPTION}", <<person.description>>),
                    "{SUMMARY}", <<summary_text>>),
            "{MEETING_DESCRIPTION}", <<meeting.description>>)

Priming(template, person, summary_text, meeting) ==
    << [role |-> "user", content |-> InstructionPrompt(template, person, summary_text, meeting)],
       Acknowledgment >>

\* Filter that lets every message through.
FoldedAny(msg) == TRUE

\* msg['participant_id'] or msg['participant_name'] == "You"
Folded(msg) == Truthy(msg.participant_id) \/ msg.participant_name = "You"

FoldMessage(msg, person) ==
    [role |-> "user",
     content |-> << msg.participant_name, " said: ", msg.content,
                    "\n\nPlease respond as the ", person.title, "." >>]

RECURSIVE FoldTranscript(_, _)
FoldTranscript(msgs, person) ==
    IF msgs = <<>> THEN <<>>
    ELSE (IF Folded(Head(msgs)) THEN <<FoldMessage(Head(msgs), person)>> ELSE <<>>)
             \o FoldTranscript(Tail(msgs), person)

\* s[1:]
Rest(s) == IF s = <<>> THEN <<>> ELSE Tail(s)

AppFallback ==
    [role |-> "user", content |-> << "Please share your initial thoughts on this feature." >>]

BackendFallback ==
    [role |-> "user", content |-> << "Please share your initial thoughts on this topic." >>]

FacilitatorQuestion(user_question, person) ==
    [role |-> "user",
     content |-> << "The facilitator asks you directly: ", user_question,
                    "\n\nPlease respond as the ", person.title, "." >>]

build_meeting_history(file, person, meeting, summary_text) ==
    Priming(get_prompt(file, ExpertId).value, person, summary_text, meeting)
        \o FoldTranscript(Rest(meeting.messages), person)
        \o (IF Len(meeting.messages) = 1 THEN <<AppFallback>> ELSE <<>>)

BackendTrailer(meeting, person, user_question) ==
    IF Len(meeting.messages) = 1 THEN <<BackendFallback>>
    ELSE IF Truthy(user_question) THEN <<FacilitatorQuestion(user_question, person)>>
         ELSE <<>>

MeetingResponseHistory(file, person, meeting, summary_text, user_question) ==
    Priming(get_prompt(file, ExpertId).value, person, summary_text, meeting)
        \o FoldTranscript(Rest(meeting.messages), person)
        \o BackendTrailer(meeting, person, user_question)

(* Summary request: generate_meeting_summary of app.py and of backend.py *)

\* f"\n\n[{msg['participant_name']}]:\n{msg['content']}"
TranscriptEntry(msg) == << "\n\n[", msg.participant_name, "]:\n", msg.content >>

\* Filter that lets every message through.
InTranscriptAny(msg) == TRUE

\* msg['participant_id'] or msg['participant_name'] == "You"
InTranscript(msg) == Truthy(msg.participant_id) \/ msg.participant_name = "You"

RECURSIVE TranscriptText(_)
TranscriptText(msgs) ==
    IF msgs = <<>> THEN <<>>
    ELSE (IF InTranscript(Head(msgs)) THEN TranscriptEntry(Head(msgs)) ELSE <<>>)
             \o TranscriptText(Tail(msgs))

SummaryTranscript(meeting) == TranscriptText(Rest(meeting.messages))

SummaryPrompt(template, meeting) ==
    Replace(Replace(Replace(template,
                            "{MEETING_TOPIC}", <<meeting.topic>>),
                    "{MEETING_DESCRIPTION}", <<meeting.description>>),
            "{TRANSCRIPT}", SummaryTranscript(meeting))

SummaryMessages(file, meeting) ==
    << [role |-> "user",
        content |-> SummaryPrompt(get_prompt(file, SubReportId).value, meeting)] >>

(* Meetings, personas and questions handed to the compilers *)

MaxTranscript == 3

PersonaMessage ==
    [participant_name |-> "Economist", content |-> ReplyText, participant_id |-> "p1"]

YouMessage ==
    [participant_name |-> "You", content |-> "my own view", participant_id |-> None]

OtherMessage ==
    [participant_name |-> "Moderator", content |-> "a note", participant_id |-> None]

Transcripts ==
    UNION {[1 .. n -> {PersonaMessage, YouMessage, OtherMessage}] : n \in 0 .. MaxTranscript}

CompileMeetings ==
    {[NewMeeting(Finding1) EXCEPT
         !.messages = @ \o t,
         !.turn_count = Cardinality({k \in DOMAIN t : t[k].participant_id # None})] :
        t \in Transcripts}

\* data.get('meeting', {}) with meeting.get('messages', []): the endpoint
\* also takes a meeting without messages.
EmptyMeeting == [NewMeeting(Finding1) EXCEPT !.messages = <<>>]

PostedMeetings == CompileMeetings \cup {EmptyMeeting}

CompilePersons == {Roster[2], Roster[3]}

Questions == {None, "", "What would it cost?"}

ExecutiveSummary == "exec summary"

(* Values that hold the text of a placeholder *)

InjectedPersons ==
    {Roster[2],
     [Roster[2] EXCEPT !.description = "{SUMMARY}"],
     [Roster[2] EXCEPT !.description = "{MEETING_DESCRIPTION}"]}

InjectedSummaries == {ExecutiveSummary, "{MEETING_DESCRIPTION}", "{PERSON_DESCRIPTION}"}

InjectedMeetings ==
    {[NewMeeting([Finding1 EXCEPT !.topic = t, !.description = d]) EXCEPT
         !.messages = @ \o u,
         !.turn_count = Len(u)] :
        t \in {Finding1.topic, "{TRANSCRIPT}", "{MEETING_DESCRIPTION}"},
        d \in {Finding1.description, "{TRANSCRIPT}", "{MEETING_TOPIC}"},
        u \in {<<>>, <<PersonaMessage>>}}

-----------------------------------------------------------------------------
(* Parsing of the roster and findings replies: generate_people and           *)
(* generate_research of app.py and of backend.py.                            *)

MaxEntries == 2

PeopleLimit == 5

FindingsLimit == 10

PersonFields == {"title", "description"}

FindingFields == {"topic", "description", "citation"}

CompletePerson == [title |-> "Economist", description |-> "markets"]

\* An entry without "description".
TitleOnly == [title |-> "Engineer"]

CompleteFinding == [topic |-> "Transit", description |-> "metro", citation |-> "c2"]

\* An entry without "citation".
Uncited == [topic |-> "Water Policy", description |-> "desalination"]

\* A reply in which re.search(r'\[[\s\S]*\]', response) finds nothing: prose,
\* or an error string of the gateway.
ProseReply == [array |-> FALSE, json |-> FALSE, entries |-> <<>>]

\* A reply with brackets whose text json.loads rejects.
BrokenArray == [array |-> TRUE, json |-> FALSE, entries |-> <<>>]

ArrayReply(entries) == [array |-> TRUE, json |-> TRUE, entries |-> entries]

RepliesOf(entries) ==
    {ProseReply, BrokenArray}
        \cup {ArrayReply(e) : e \in UNION {[1 .. n -> entries] : n \in 0 .. MaxEntries}}

PeopleReplies == RepliesOf({CompletePerson, TitleOnly})

FindingsReplies == RepliesOf({CompleteFinding, Uncited})

\* data[:limit]
Slice(data, limit) == SubSeq(data, 1, IF Len(data) < limit THEN Len(data) ELSE limit)

\* str(uuid.uuid4())
NewId(k) == "new-" \o ToString(k)

\* The try block: matched is json_match, raised an exception of json.loads or
\* of a missing key, list the comprehension's value.
ParseEntries(reply, fields, limit) ==
    LET data == Slice(reply.entries, limit)
    IN  IF ~reply.array THEN [matched |-> FALSE, raised |-> FALSE, list |-> <<>>]
        ELSE IF ~reply.json THEN [matched |-> TRUE, raised |-> TRUE, list |-> <<>>]
        ELSE IF \E k \in DOMAIN data : fields \ DOMAIN data[k] # {}
        THEN [matched |-> TRUE, raised |-> TRUE, list |-> <<>>]
        ELSE [matched |-> TRUE, raised |-> FALSE,
              list |-> [k \in DOMAIN data |->
                           [f \in fields \cup {"id"} |->
                               IF f = "id" THEN NewId(k) ELSE data[k][f]]]]

\* app.py: the list is assigned inside the try block, st.error is called in
\* the except clause only, and the session is saved in every case.
AppGenerate(before, reply, fields, limit) ==
    LET p == ParseEntries(reply, fields, limit)
        after == IF p.matched /\ ~p.raised THEN p.list ELSE before
    IN  [after |-> after, saved |-> after, reported |-> p.raised]

\* backend.py: 200 with the list, 500 with "error" otherwise; nothing stored.
BackendGenerate(before, reply, fields, limit) ==
    LET p == ParseEntries(reply, fields, limit)
    IN  [after |-> before, saved |-> before, reported |-> ~(p.matched /\ ~p.raised)]

Generate(service, before, reply, fields, limit) ==
    IF service = "app" THEN AppGenerate(before, reply, fields, limit)
    ELSE BackendGenerate(before, reply, fields, limit)

-----------------------------------------------------------------------------
(* Calls of the library: prompt store, gateway, compilers.  The gateway and *)
(* the compilers keep no state of their own: one call is made per behaviour. *)

PromptsViewSave(id, content) ==
    LET loaded == load_prompts(prompts_file)
    IN  /\ id \in DOMAIN loaded.dict
        /\ prompts_file' = save_prompts([loaded.dict EXCEPT ![id] = content])
        /\ last_set' = [last_set EXCEPT ![id] = [set |-> TRUE, content |-> content]]
        /\ io' = [op |-> "prompts_view.save", id |-> id, content |-> content]
        /\ UNCHANGED <<SessionVars, RestVars>>

PromptsViewReset ==
    /\ prompts_file' = save_prompts(DEFAULT_PROMPTS)
    /\ last_set' = [id \in PromptIds |-> Unset]
    /\ io' = [op |-> "prompts_view.reset"]
    /\ UNCHANGED <<SessionVars, RestVars>>

update_prompts(data) ==
    /\ prompts_file' = save_prompts(data)
    /\ last_set' = [id \in PromptIds |->
                      IF id \in DOMAIN data THEN [set |-> TRUE, content |-> data[id]]
                      ELSE Unset]
    /\ io' = [op |-> "update_prompts", data |-> data]
    /\ UNCHANGED <<SessionVars, RestVars>>

reset_prompts ==
    /\ prompts_file' = save_prompts(DEFAULT_PROMPTS)
    /\ last_set' = [id \in PromptIds |-> Unset]
    /\ io' = [op |-> "reset_prompts"]
    /\ UNCHANGED <<SessionVars, RestVars>>

GetPrompt(id) ==
    LET got == get_prompt(prompts_file, id)
    IN  /\ prompts_file' = got.file
        /\ io' = [op |-> "get_prompt", id |-> id, ret |-> got.value]
        /\ UNCHANGED <<last_set, SessionVars, RestVars>>

SendMessageCall(in) ==
    /\ io = NoCall
    /\ io' = [op |-> "send_message", in |-> in, result |-> send_message(in)]
    /\ UNCHANGED <<prompts_file, last_set, SessionVars, RestVars>>

BuildMeetingHistory(person, meeting) ==
    /\ io = NoCall
    /\ prompts_file' = get_prompt(prompts_file, ExpertId).file
    /\ io' = [op |-> "build_meeting_history",
              person |-> person,
              meeting |-> meeting,
              user_question |-> None,
              history |-> build_meeting_history(prompts_file, person, meeting,
                                                ExecutiveSummary),
              meeting_after |-> meeting]
    /\ UNCHANGED <<last_set, SessionVars, RestVars>>

get_meeting_response(person, meeting, user_question) ==
    LET history == MeetingResponseHistory(prompts_file, person, meeting,
                                          ExecutiveSummary, user_question)
    IN  /\ io = NoCall
        /\ prompts_file' = get_prompt(prompts_file, ExpertId).file
        /\ io' = [op |-> "get_meeting_response",
                  person |-> person,
                  meeting |-> meeting,
                  user_question |-> user_question,
                  history |-> history,
                  meeting_after |-> meeting,
                  response |-> send_message([service |-> "backend",
                                             api_key |-> api_key,
                                             messages |-> history,
                                             system_prompt |-> None,
                                             outcome |-> "text"]).value]
        /\ UNCHANGED <<last_set, SessionVars, RestVars>>

\* The instruction and the history either program compiles for a turn.
CompileTurnPrompt(service, person, meeting, summary_text) ==
    /\ io = NoCall
    /\ prompts_file' = get_prompt(prompts_file, ExpertId).file
    /\ io' = [op |-> "turn_prompt",
              service |-> service,
              person |-> person,
              meeting |-> meeting,
              summary |-> summary_text,
              template |-> get_prompt(prompts_file, ExpertId).value,
              history |-> IF service = "app"
                          THEN build_meeting_history(prompts_file, person, meeting,
                                                     summary_text)
                          ELSE MeetingResponseHistory(prompts_file, person, meeting,
                                                      summary_text, None)]
    /\ UNCHANGED <<last_set, SessionVars, RestVars>>

\* The request generate_meeting_summary of either program sends.
SummaryRequestCall(service, meeting) ==
    /\ io = NoCall
    /\ prompts_file' = get_prompt(prompts_file, SubReportId).file
    /\ io' = [op |-> "summary_request",
              service |-> service,
              meeting |-> meeting,
              template |-> get_prompt(prompts_file, SubReportId).value,
              messages |-> SummaryMessages(prompts_file, meeting),
              meeting_after |-> meeting]
    /\ UNCHANGED <<last_set, SessionVars, RestVars>>

GeneratePeopleCall(service, before, reply) ==
    /\ io = NoCall
    /\ io' = [op |-> "generate_people", service |-> service, before |-> before,
              reply |-> reply, fields |-> PersonFields,
              result |-> Generate(service, before, reply, PersonFields, PeopleLimit)]
    /\ UNCHANGED <<prompts_file, last_set, SessionVars, RestVars>>

GenerateResearchCall(service, before, reply) ==
    /\ io = NoCall
    /\ io' = [op |-> "generate_research", service |-> service, before |-> before,
              reply |-> reply, fields |-> FindingFields,
              result |-> Generate(service, before, reply, FindingFields, FindingsLimit)]
    /\ UNCHANGED <<prompts_file, last_set, SessionVars, RestVars>>

\* A session in which no handler runs, as the library calls find it.
SessionAtRest ==
    /\ store = DefaultRecord
    /\ summary = store.summary
    /\ people = store.people
    /\ research_findings = store.research_findings
    /\ meetings = store.meetings
    /\ api_key \in ApiKeys
    /\ is_running_meetings = FALSE
    /\ pc = "idle"
    /\ meeting_idx = 0
    /\ handler = "none"
    /\ outcome = "none"
    /\ last_handler = "other"
    /\ repeat = FALSE
    /\ called = FALSE
    /\ net_failures = 0
    /\ restarts = 0
    /\ run_start = NoRun
    /\ summary_request = <<>>

PromptInit ==
    /\ SessionAtRest
    /\ OthersAtRest
    /\ prompts_file \in {NoFile} \cup {save_prompts(d) : d \in StoredDicts}
    /\ last_set = LastSetOf(prompts_file)
    /\ io = NoCall

PromptNext ==
    \/ \E id \in PromptIds : \E content \in PromptContents(id) : PromptsViewSave(id, content)
    \/ PromptsViewReset
    \/ \E data \in StoredDicts : update_prompts(data)
    \/ reset_prompts
    \/ \E id \in PromptIds : GetPrompt(id)

PromptSpec == PromptInit /\ [][PromptNext]_vars

GatewayInit ==
    /\ SessionAtRest
    /\ OthersAtRest
    /\ prompts_file = NoFile
    /\ last_set = LastSetOf(prompts_file)
    /\ io = NoCall

GatewayNext == \E in \in GatewayInputs : SendMessageCall(in)

GatewaySpec == GatewayInit /\ [][GatewayNext]_vars

CompileInit ==
    /\ SessionAtRest
    /\ OthersAtRest
    /\ prompts_file \in {NoFile, save_prompts(DEFAULT_PROMPTS),
                         save_prompts([DEFAULT_PROMPTS EXCEPT ![ExpertId] = EditedPrompt])}
    /\ last_set = LastSetOf(prompts_file)
    /\ io = NoCall

CompileNext ==
    \/ \E person \in CompilePersons : \E meeting \in CompileMeetings :
           BuildMeetingHistory(person, meeting)
    \/ \E person \in CompilePersons : \E meeting \in PostedMeetings :
       \E user_question \in Questions :
           get_meeting_response(person, meeting, user_question)

CompileSpec == CompileInit /\ [][CompileNext]_vars

SubstInit ==
    /\ SessionAtRest
    /\ OthersAtRest
    /\ prompts_file \in {NoFile, save_prompts(DEFAULT_PROMPTS)}
    /\ last_set = LastSetOf(prompts_file)
    /\ io = NoCall

SubstNext ==
    \/ \E service \in Services : \E person \in InjectedPersons :
       \E meeting \in InjectedMeetings : \E summary_text \in InjectedSummaries :
           CompileTurnPrompt(service, person, meeting, summary_text)
    \/ \E service \in Services : \E meeting \in InjectedMeetings :
           SummaryRequestCall(service, meeting)

SubstSpec == SubstInit /\ [][SubstNext]_vars

SummaryInit ==
    /\ SessionAtRest
    /\ OthersAtRest
    /\ prompts_file \in {NoFile, save_prompts(DEFAULT_PROMPTS),
                         save_prompts([DEFAULT_PROMPTS EXCEPT ![SubReportId] = EditedPrompt])}
    /\ last_set = LastSetOf(prompts_file)
    /\ io = NoCall

SummaryNext ==
    \E service \in Services :
        \E meeting \in (IF service = "app" THEN CompileMeetings ELSE PostedMeetings) :
            SummaryRequestCall(service, meeting)

SummarySpec == SummaryInit /\ [][SummaryNext]_vars

ParseInit ==
    /\ SessionAtRest
    /\ OthersAtRest
    /\ prompts_file = NoFile
    /\ last_set = LastSetOf(prompts_file)
    /\ io = NoCall

ParseNext ==
    \/ \E service \in Services : \E before \in Rosters : \E reply \in PeopleReplies :
           GeneratePeopleCall(service, before, reply)
    \/ \E service \in Services : \E before \in FindingLists : \E reply \in FindingsReplies :
           GenerateResearchCall(service, before, reply)

ParseSpec == ParseInit /\ [][ParseNext]_vars

-----------------------------------------------------------------------------
(* Two clients on one session id.  Each loads the whole record once and     *)
(* writes the whole record it holds with every save.                        *)

MaxSharedTurns == 2

\* A session in the meetings stage.
SharedRecord ==
    Record(ReplyText, Roster, <<Finding1, Finding2>>,
           <<NewMeeting(Finding1), NewMeeting(Finding2)>>)

\* init_session_state -> load_current_session_data; GET /api/sessions/<id>.
ClientLoad(c) ==
    /\ ~clients[c].loaded
    /\ clients' = [clients EXCEPT ![c] = [loaded |-> TRUE, data |-> session_file]]
    /\ io' = [op |-> "load", client |-> c]
    /\ UNCHANGED <<session_file, prompts_file, last_set, SessionVars, SidebarVars, BackendVars>>

\* One iteration of run_single_meeting in client c: the turn is appended to
\* the client's copy and save_current_session_data writes the copy.
ClientTurn(c, i) ==
    LET data == clients[c].data
    IN  /\ clients[c].loaded
        /\ i \in DOMAIN data.meetings
        /\ ~data.meetings[i].is_complete
        /\ data.meetings[i].turn_count < MaxSharedTurns
        /\ Len(data.people) > 0
        /\ LET m == AppendTurn(data.meetings[i], NextActor(data.meetings[i], data.people),
                               ReplyText)
               saved == [data EXCEPT !.meetings[i] = m]
           IN  /\ clients' = [clients EXCEPT ![c].data = saved]
               /\ session_file' = saved
        /\ io' = [op |-> "turn", client |-> c, meeting |-> i]
        /\ UNCHANGED <<prompts_file, last_set, SessionVars, SidebarVars, BackendVars>>

\* The Reset button of meeting i in client c.
ClientReset(c, i) ==
    LET data == clients[c].data
    IN  /\ clients[c].loaded
        /\ i \in DOMAIN data.meetings
        /\ LET saved == [data EXCEPT !.meetings[i] = ResetOf(@)]
           IN  /\ clients' = [clients EXCEPT ![c].data = saved]
               /\ session_file' = saved
        /\ io' = [op |-> "reset", client |-> c, meeting |-> i]
        /\ UNCHANGED <<prompts_file, last_set, SessionVars, SidebarVars, BackendVars>>

SharedInit ==
    /\ SessionAtRest
    /\ prompts_file = NoFile
    /\ last_set = LastSetOf(prompts_file)
    /\ io = NoCall
    /\ session_file = SharedRecord
    /\ clients = [c \in Clients |-> NotLoaded]
    /\ SidebarAtRest
    /\ BackendAtRest

SharedNext ==
    \/ \E c \in Clients : ClientLoad(c)
    \/ \E c \in Clients : \E i \in DOMAIN SharedRecord.meetings : ClientTurn(c, i)
    \/ \E c \in Clients : \E i \in DOMAIN SharedRecord.meetings : ClientReset(c, i)

SharedSpec == SharedInit /\ [][SharedNext]_vars

-----------------------------------------------------------------------------
(* render_sidebar: the session selector and the New and Delete buttons.  One *)
(* action is one run of the script up to its st.rerun() or to its end.       *)

MaxSessionsMade == 3

SessionIds(sessions) == {sessions[k].id : k \in DOMAIN sessions}

\* next((s for s in sessions if s['id'] == current_session_id), None)
CurrentSession(sessions, id) ==
    IF id \in SessionIds(sessions)
    THEN sessions[CHOOSE k \in DOMAIN sessions :
                      /\ sessions[k].id = id
                      /\ \A j \in 1 .. k - 1 : sessions[j].id # id]
    ELSE None

\* session_names.index(name): the first position that holds the name.
IndexOf(names, name) ==
    CHOOSE k \in DOMAIN names : names[k] = name /\ \A j \in 1 .. k - 1 : names[j] # name

\* selected_idx, counted from 1.
SelectedIdx(sessions, id) ==
    LET current_session == CurrentSession(sessions, id)
        session_names == [k \in DOMAIN sessions |-> sessions[k].name]
    IN  IF id \in SessionIds(sessions)
        THEN IndexOf(session_names, current_session.name)
        ELSE 1

\* The sessions list of create_session(name) with a fresh uuid.
Created(sessions, name) ==
    Append(sessions, [id |-> SessionId(uuid_count + 1), name |-> name])

\* The sessions list of delete_session(session_id).
Deleted(sessions, session_id) ==
    LET Kept(session) == session.id # session_id
    IN  SelectSeq(sessions, Kept)

\* One run of the script.  The selectbox gives the user's pick, or selected_idx
\* when the user did not touch it (pick = 0).
RenderSidebar(click, pick) ==
    LET sessions == sessions_metadata
        new_session_idx == IF pick # 0 THEN pick ELSE SelectedIdx(sessions, current_session_id)
        follows == IF sidebar_pc = "rerun" THEN io.op ELSE "user"
        created == IF sidebar_pc = "rerun" THEN io.created ELSE None
    IN  IF sessions[new_session_idx].id # current_session_id
        THEN /\ session_files' = WriteFile(session_files, current_session_id, DefaultRecord)
             /\ current_session_id' = sessions[new_session_idx].id
             /\ sidebar_pc' = "rerun"
             /\ io' = [op |-> "switch", follows |-> follows, created |-> created]
             /\ UNCHANGED <<sessions_metadata, uuid_count>>
        ELSE IF click = "new"
        THEN /\ sessions_metadata' = Created(sessions, SessionName(Len(sessions) + 1))
             /\ uuid_count' = uuid_count + 1
             /\ current_session_id' = SessionId(uuid_count + 1)
             /\ sidebar_pc' = "rerun"
             /\ io' = [op |-> "new", follows |-> follows,
                       created |-> SessionId(uuid_count + 1)]
             /\ UNCHANGED session_files
        ELSE IF click = "delete"
        THEN /\ sessions_metadata' = Deleted(sessions, current_session_id)
             /\ session_files' = Unlink(session_files, current_session_id)
             /\ current_session_id' = sessions_metadata'[1].id
             /\ sidebar_pc' = "rerun"
             /\ io' = [op |-> "delete", follows |-> follows, created |-> None]
             /\ UNCHANGED uuid_count
        ELSE /\ sidebar_pc' = "rendered"
             /\ io' = [op |-> "render", follows |-> follows, created |-> created]
             /\ UNCHANGED <<sessions_metadata, session_files, current_session_id,
                            uuid_count>>

SelectSession(pick) ==
    /\ sidebar_pc = "rendered"
    /\ pick \in DOMAIN sessions_metadata
    /\ RenderSidebar("none", pick)
    /\ UNCHANGED <<prompts_file, last_set, SessionVars, ClientVars, BackendVars>>

ClickNew ==
    /\ sidebar_pc = "rendered"
    /\ uuid_count < MaxSessionsMade
    /\ RenderSidebar("new", 0)
    /\ UNCHANGED <<prompts_file, last_set, SessionVars, ClientVars, BackendVars>>

\* disabled=len(sessions) <= 1
ClickDelete ==
    /\ sidebar_pc = "rendered"
    /\ Len(sessions_metadata) > 1
    /\ RenderSidebar("delete", 0)
    /\ UNCHANGED <<prompts_file, last_set, SessionVars, ClientVars, BackendVars>>

\* The script run that st.rerun() starts, with no user action.
Rerender ==
    /\ sidebar_pc = "rerun"
    /\ RenderSidebar("none", 0)
    /\ UNCHANGED <<prompts_file, last_set, SessionVars, ClientVars, BackendVars>>

SidebarInit ==
    /\ SessionAtRest
    /\ ClientsAtRest
    /\ SidebarAtRest
    /\ BackendAtRest
    /\ prompts_file = NoFile
    /\ last_set = LastSetOf(prompts_file)
    /\ io = [op |-> "render", follows |-> "user", created |-> None]

SidebarNext ==
    \/ \E pick \in 1 .. MaxSessionsMade : SelectSession(pick)
    \/ ClickNew
    \/ ClickDelete
    \/ Rerender

SidebarSpec == SidebarInit /\ [][SidebarNext]_vars

-----------------------------------------------------------------------------
(* backend.py: authentication and the routes under /api.  One action is one  *)
(* request of a client, answered from the Flask session the client presents. *)

Usernames == {"TestUserAD", "guest"}

Passwords == {"ADPM1987@AD", "letmein"}

\* USERS, with sha256 taken as injective: the hashes are equal iff the passwords are.
check_password(username, password) ==
    username = "TestUserAD" /\ password = "ADPM1987@AD"

\* Lets a client through once it has logged out.
LoginRequiredForgetsLogout(cookie) == cookie.user # None \/ cookie.last = "logout"

\* The decorator calls the view iff 'user' in session.
login_required(cookie) == cookie.user # None

Routes ==
    {"get_sessions", "create_new_session", "get_session", "update_session",
     "remove_session", "ai_chat", "generate_summary", "generate_people",
     "generate_research", "get_meeting_response", "generate_meeting_summary",
     "generate_final_report", "get_api_key_status", "set_api_key", "get_prompts",
     "update_prompts", "reset_prompts"}

\* The views that call service.send_message.
GatewayRoutes ==
    {"ai_chat", "generate_summary", "generate_people", "generate_research",
     "get_meeting_response", "generate_meeting_summary", "generate_final_report"}

\* The views that call load_prompts, directly or through get_prompt.
PromptRoutes == (GatewayRoutes \ {"ai_chat"}) \cup {"get_prompts"}

\* The views that write a file.
WritingRoutes ==
    {"create_new_session", "update_session", "remove_session", "set_api_key",
     "update_prompts", "reset_prompts"}

\* Request bodies and path parameters.
RequestArgs ==
    [session_id : {SessionId(1)},
     data : {ResearchedRecord},
     api_key : {"sk-key"},
     prompts : {[DEFAULT_PROMPTS EXCEPT ![ExpertId] = EditedPrompt]}]

login(c, username, password) ==
    /\ IF check_password(username, password)
       THEN /\ cookies' = [cookies EXCEPT ![c] = [user |-> username, last |-> "login"]]
            /\ io' = [op |-> "login", client |-> c, status |-> 200, called |-> FALSE]
       ELSE /\ cookies' = [cookies EXCEPT ![c].last =
                                IF cookies[c].user = None THEN "failed" ELSE @]
            /\ io' = [op |-> "login", client |-> c, status |-> 401, called |-> FALSE]
    /\ UNCHANGED <<prompts_file, last_set, config, SessionVars, ClientVars, SidebarVars>>

\* session.pop('user', None)
logout(c) ==
    /\ cookies' = [cookies EXCEPT ![c] = [user |-> None, last |-> "logout"]]
    /\ io' = [op |-> "logout", client |-> c, status |-> 200, called |-> FALSE]
    /\ UNCHANGED <<prompts_file, last_set, config, SessionVars, ClientVars, SidebarVars>>

check_auth(c) ==
    /\ io' = [op |-> "check_auth", client |-> c, status |-> 200, called |-> FALSE,
              authenticated |-> cookies[c].user # None]
    /\ UNCHANGED <<prompts_file, last_set, BackendVars, SessionVars, ClientVars,
                   SidebarVars>>

\* The body of the view of a route.
View(c, route, args) ==
    /\ route = "create_new_session" => uuid_count < MaxSessionsMade
    /\ sessions_metadata' =
          CASE route = "create_new_session" ->
                   Created(sessions_metadata, SessionName(Len(sessions_metadata) + 1))
            [] route = "remove_session" -> Deleted(sessions_metadata, args.session_id)
            [] OTHER -> sessions_metadata
    /\ uuid_count' = IF route = "create_new_session" THEN uuid_count + 1 ELSE uuid_count
    /\ session_files' =
          CASE route = "update_session" ->
                   WriteFile(session_files, args.session_id, args.data)
            [] route = "remove_session" -> Unlink(session_files, args.session_id)
            [] OTHER -> session_files
    /\ prompts_file' =
          CASE route \in PromptRoutes -> load_prompts(prompts_file).file
            [] route = "update_prompts" -> save_prompts(args.prompts)
            [] route = "reset_prompts" -> save_prompts(DEFAULT_PROMPTS)
            [] OTHER -> prompts_file
    /\ last_set' =
          CASE route = "update_prompts" ->
                   [id \in PromptIds |->
                       IF id \in DOMAIN args.prompts
                       THEN [set |-> TRUE, content |-> args.prompts[id]]
                       ELSE Unset]
            [] route = "reset_prompts" -> [id \in PromptIds |-> Unset]
            [] OTHER -> last_set
    /\ config' = IF route = "set_api_key"
                 THEN [exists |-> TRUE, api_key |-> args.api_key]
                 ELSE config
    /\ io' = [op |-> route, client |-> c, status |-> 200,
              called |-> route \in GatewayRoutes]

\* return jsonify({"error": "Unauthorized"}), 401
Unauthorized(c, route) ==
    /\ io' = [op |-> route, client |-> c, status |-> 401, called |-> FALSE]
    /\ UNCHANGED <<sessions_metadata, uuid_count, session_files, prompts_file, last_set,
                   config>>

Request(c, route, args) ==
    /\ IF login_required(cookies[c]) THEN View(c, route, args) ELSE Unauthorized(c, route)
    /\ UNCHANGED <<cookies, current_session_id, sidebar_pc, SessionVars, ClientVars>>

\* The backend on an empty data directory, no client logged in.
AuthInit ==
    /\ SessionAtRest
    /\ ClientsAtRest
    /\ BackendAtRest
    /\ sessions_metadata = <<>>
    /\ session_files = NoFiles
    /\ current_session_id = None
    /\ sidebar_pc = "rendered"
    /\ uuid_count = 0
    /\ prompts_file = NoFile
    /\ last_set = LastSetOf(prompts_file)
    /\ io = NoCall

AuthNext ==
    \/ \E c \in Clients : \E username \in Usernames : \E password \in Passwords :
           login(c, username, password)
    \/ \E c \in Clients : logout(c)
    \/ \E c \in Clients : check_auth(c)
    \/ \E c \in Clients : \E route \in Routes : \E args \in RequestArgs :
           Request(c, route, args)

AuthSpec == AuthInit /\ [][AuthNext]_vars

-----------------------------------------------------------------------------
(* Vocabulary of the properties *)

MemMeetings == {meetings[i] : i \in DOMAIN meetings}

StoredMeetings == {store.meetings[i] : i \in DOMAIN store.meetings}

AllMeetings == MemMeetings \cup StoredMeetings

PersonaMessages(m) == {k \in DOMAIN m.messages : m.messages[k].participant_id # None}

IsSeed(msg, m) ==
    /\ msg.participant_name = "Meeting Topic: " \o m.topic
    /\ msg.content = m.description
    /\ msg.participant_id = None

IsFresh(m) ==
    /\ Len(m.messages) = 1
    /\ IsSeed(m.messages[1], m)
    /\ m.turn_count = 0
    /\ m.is_complete = FALSE
    /\ m.summary_report = None

RunControlsEnabled == ~is_running_meetings

-----------------------------------------------------------------------------
\* C1: in every state outside the body of a turn, in memory and in the store,
\* every meeting holds its seed message plus one message per counted turn:
\* len(messages) = 1 + turn_count.
C1_LenIsOnePlusTurnCount ==
    \A m \in AllMeetings : Len(m.messages) = 1 + m.turn_count

\* A meeting with four saved turns whose run is under way, next to a complete one.
C1_Witness ==
    /\ last_handler = "other"
    /\ pc = "loop"
    /\ Len(meetings) = 2
    /\ meetings[1].turn_count = 4
    /\ meetings[2].is_complete
    /\ meetings[2].summary_report # None
    /\ store.meetings = meetings

\* C2: every meeting with is_complete = true has a summary_report, in memory
\* and as persisted.  (The claim as stated; run_single_meeting sets
\* is_complete before generate_meeting_summary has produced the summary.)
C2_CompleteImpliesSummary ==
    \A m \in AllMeetings : m.is_complete => m.summary_report # None

\* C3: with the roster fixed, the k-th persona-authored message (k from 0)
\* carries the title and the id of roster[k mod len(roster)].
C3_RoundRobin ==
    \A m \in AllMeetings :
        \A k \in 0 .. (m.turn_count - 1) :
            LET msg == m.messages[k + 2]
                actor == Roster[(k % Len(Roster)) + 1]
            IN  /\ msg.participant_name = actor.title
                /\ msg.participant_id = actor.id

\* The cycle wrapped around more than once in a complete meeting.
C3_Witness ==
    \E m \in MemMeetings :
        /\ m.is_complete
        /\ m.messages[2].participant_name = "Economist"
        /\ m.messages[3].participant_name = "Engineer"
        /\ m.messages[4].participant_name = "Ethicist"
        /\ m.messages[5].participant_id = "p1"
        /\ m.messages[11].participant_id = "p1"

\* C4: a run of a meeting with a non-empty roster that is neither interrupted
\* nor cut by a restart reaches its st.rerun() with turn_count = max_turns,
\* is_complete = true and a summary_report, whatever the gateway returned.
RunEnded ==
    /\ pc = "rerun"
    /\ meetings[meeting_idx].turn_count = max_turns
    /\ meetings[meeting_idx].is_complete
    /\ meetings[meeting_idx].summary_report # None

C4_RunTerminatesComplete ==
    \A n \in 0 .. MaxRestarts :
        (pc = "loop" /\ Len(people) > 0 /\ restarts = n)
            ~> (RunEnded \/ outcome = "interrupted" \/ restarts > n)

\* A run resumed after a restart from a stored partial transcript has ended,
\* with a gateway error among its turns.
C4_Witness ==
    /\ RunEnded
    /\ restarts = 1
    /\ \E k \in DOMAIN meetings[meeting_idx].messages :
           meetings[meeting_idx].messages[k].content = ErrApi

\* C5: turn_count never exceeds the cap and equals the number of messages with
\* a non-null participant_id the meeting holds since its creation or last reset,
\* in memory and in the store.
C5_TurnCountIsPersonaCount ==
    \A m \in AllMeetings :
        /\ m.turn_count <= max_turns
        /\ m.turn_count = Cardinality(PersonaMessages(m))

\* After a reload, one meeting was run to the cap and the other was reset.
C5_Witness ==
    /\ restarts = 1
    /\ last_handler = "reset"
    /\ Len(meetings) = 2
    /\ meetings[1].turn_count = max_turns
    /\ IsFresh(meetings[2])
    /\ store.meetings[2].turn_count = 0

\* C6: when one invocation of run_all_meetings ends, every meeting of the set
\* is complete.  (The claim as stated; st.rerun() at the end of
\* run_single_meeting ends the script inside the loop of run_all_meetings.)
C6_RunAllCompletesEveryMeeting ==
    (pc = "rerun" /\ handler = "run_all") =>
        \A i \in DOMAIN meetings : meetings[i].is_complete

\* C7: a run_all_meetings that directly follows another one makes no gateway
\* call and starts no run.  (The claim as stated.)
C7_SecondRunAllDoesNothing ==
    repeat => (~called /\ pc \in {"idle", "rerun"})

\* The second run_all_meetings found an incomplete meeting and is running it.
C7_Witness ==
    /\ repeat
    /\ called
    /\ meeting_idx = 2
    /\ meetings[1].is_complete

\* C8: Reset Meeting, whatever the state of the selected meeting, leaves it
\* with the seed as its only message, turn_count 0, is_complete false and
\* summary_report null, keeps its topic and description, changes no other
\* meeting and writes the resulting list to the store.
C8_ResetRestoresSeed ==
    [][\A i \in DOMAIN meetings :
          ResetMeeting(i) =>
              /\ Len(meetings') = Len(meetings)
              /\ meetings'[i].topic = meetings[i].topic
              /\ meetings'[i].description = meetings[i].description
              /\ IsFresh(meetings'[i])
              /\ \A j \in DOMAIN meetings \ {i} : meetings'[j] = meetings[j]
              /\ store'.meetings = meetings']_vars

\* A reset has just put the first meeting back to its seed and saved it,
\* while the second meeting keeps its complete transcript and summary.
C8_Witness ==
    /\ last_handler = "reset"
    /\ Len(meetings) = 2
    /\ IsFresh(meetings[1])
    /\ meetings[2].is_complete
    /\ Len(meetings[2].messages) = 1 + max_turns
    /\ meetings[2].summary_report # None
    /\ store.meetings = meetings

\* C9: after a run was started with an empty roster and failed, the run
\* controls work again once a roster exists.  (The claim as stated; the
\* ZeroDivisionError of line 663 leaves is_running_meetings set.)
C9_EmptyRosterLeavesAppUsable ==
    (outcome = "ZeroDivisionError" /\ Len(people) > 0) => RunControlsEnabled

-----------------------------------------------------------------------------
(* Crash, reload and resumption *)

IsPrefix(a, b) == Len(a) <= Len(b) /\ SubSeq(b, 1, Len(a)) = a

RunPcs == {"loop", "save_turn", "summary", "save_summary", "finish"}

\* C11: when the process ends at any point of run_single_meeting and the
\* session is opened again, the record loads, every loaded meeting has
\* len(messages) = 1 + turn_count, holds every message that had been saved, in
\* order, and lacks at most one turn of what the ended process held.  (The
\* claim as stated; save_session_data truncates the file before it writes it.)
C11_CrashKeepsSavedTurns ==
    [][(pc \in RunPcs /\ restarts' = restarts + 1) =>
          /\ pc' = "idle"
          /\ Len(meetings') = Len(meetings)
          /\ \A i \in DOMAIN meetings' :
                /\ Len(meetings'[i].messages) = 1 + meetings'[i].turn_count
                /\ IsPrefix(store.meetings[i].messages, meetings'[i].messages)
                /\ IsPrefix(meetings'[i].messages, meetings[i].messages)
                /\ Len(meetings[i].messages) <= Len(meetings'[i].messages) + 1]_vars

\* C12: a run of a meeting found with 0 < t < max_turns counted turns keeps
\* the t + 1 messages it found, authors its first new turn as
\* roster[t mod len(roster)], and has taken exactly max_turns - t turns when
\* its loop has ended.
C12_ResumeContinuesFromStoredCount ==
    (pc \in RunPcs \cup {"rerun"} /\ run_start.turn_count \in 1 .. (max_turns - 1)) =>
        LET m == meetings[meeting_idx]
            t == run_start.turn_count
        IN  /\ IsPrefix(run_start.messages, m.messages)
            /\ m.turn_count >= t
            /\ m.turn_count > t =>
                  /\ m.messages[t + 2].participant_id = people[(t % Len(people)) + 1].id
                  /\ m.messages[t + 2].participant_name = people[(t % Len(people)) + 1].title
            /\ pc \in {"summary", "save_summary", "finish", "rerun"} =>
                  m.turn_count - t = max_turns - t

\* A meeting reloaded with four stored turns was run to its end and saved.
C12_Witness ==
    /\ pc = "rerun"
    /\ restarts = 1
    /\ run_start.turn_count = 4
    /\ Len(run_start.messages) = 5
    /\ meetings[meeting_idx].turn_count = max_turns
    /\ meetings[meeting_idx].messages[6].participant_id = "p2"
    /\ store.meetings = meetings

\* C13: initialize_meetings on an empty meeting set creates one fresh meeting
\* per research finding, in the order of the findings, with the finding's
\* topic and description; on a non-empty meeting set it changes no meeting.
C13_InitializeOncePerFinding ==
    [][initialize_meetings =>
          IF meetings = <<>>
          THEN /\ Len(meetings') = Len(research_findings)
               /\ \A i \in DOMAIN research_findings :
                     /\ meetings'[i].topic = research_findings[i].topic
                     /\ meetings'[i].description = research_findings[i].description
                     /\ IsFresh(meetings'[i])
          ELSE meetings' = meetings]_vars

\* initialize_meetings has just run on a session whose two meetings exist, one
\* of them complete, after the findings were regenerated as a shorter list.
C13_Witness ==
    /\ last_handler = "initialize"
    /\ Len(research_findings) = 1
    /\ Len(meetings) = 2
    /\ meetings[1].is_complete
    /\ IsFresh(meetings[2])

\* C14: once the meeting set is not empty, no step of a loaded session (runs,
\* resets, summaries, regenerated findings or personas, reloads) changes the
\* number, the order, the topic or the description of the meetings.  The step
\* that leaves the session file unreadable (C11) loads no session.
C14_MeetingSetIsFixed ==
    [][(meetings # <<>> /\ pc' # "load_error") =>
          /\ Len(meetings') = Len(meetings)
          /\ \A i \in DOMAIN meetings :
                /\ meetings'[i].topic = meetings[i].topic
                /\ meetings'[i].description = meetings[i].description]_vars

\* After a reload the findings are a list of one while the two meetings of the
\* first list are still there, in order, the first of them complete.
C14_Witness ==
    /\ restarts = 1
    /\ pc = "idle"
    /\ research_findings = <<Finding2>>
    /\ Len(meetings) = 2
    /\ meetings[1].topic = "Water Policy"
    /\ meetings[2].topic = "Transit"
    /\ meetings[1].is_complete

-----------------------------------------------------------------------------
(* Summary generation *)

\* C16: generating a meeting's summary appends no message and leaves messages,
\* turn_count, topic, description and is_complete of that meeting, and every
\* other meeting, as they were: only that meeting's summary_report is written.
C16_SummaryWritesOnlyTheReport ==
    [][generate_meeting_summary =>
          /\ Len(meetings') = Len(meetings)
          /\ \A i \in DOMAIN meetings :
                /\ meetings'[i].messages = meetings[i].messages
                /\ meetings'[i].turn_count = meetings[i].turn_count
                /\ meetings'[i].topic = meetings[i].topic
                /\ meetings'[i].description = meetings[i].description
                /\ meetings'[i].is_complete = meetings[i].is_complete
                /\ i # meeting_idx => meetings'[i] = meetings[i]]_vars

\* The second meeting's summary has just been produced and is not yet saved;
\* the first meeting has its own.
C16_Witness ==
    /\ pc = "save_summary"
    /\ meeting_idx = 2
    /\ meetings[1].summary_report # None
    /\ meetings[2].summary_report # None
    /\ store.meetings[2].summary_report = None
    /\ Len(meetings[2].messages) = 1 + max_turns

\* C18: a run issues no summary request before its loop has ended and exactly
\* one after it; when it is issued the meeting has max_turns turns, all of
\* them saved, the transcript of the request holds every persona turn in
\* transcript order, and no message is appended afterwards.
C18_SummaryOnceAfterLastTurn ==
    /\ Len(summary_request) <= 1
    /\ pc \in {"idle", "load_error", "loop", "save_turn", "summary"} => summary_request = <<>>
    /\ pc \in {"save_summary", "finish", "rerun"} => Len(summary_request) = 1
    /\ summary_request # <<>> =>
          LET m == meetings[meeting_idx]
          IN  /\ m.turn_count = max_turns
              /\ store.meetings[meeting_idx].messages = m.messages
              /\ store.meetings[meeting_idx].turn_count = max_turns
              /\ Len(summary_request[1]) = max_turns
              /\ \A k \in 1 .. max_turns : summary_request[1][k] = m.messages[k + 1]

\* The summary of a meeting whose last turn was a gateway error has been
\* requested with the ten turns in order.
C18_Witness ==
    /\ pc = "finish"
    /\ Len(summary_request) = 1
    /\ summary_request[1][1].participant_name = "Economist"
    /\ summary_request[1][2].participant_name = "Engineer"
    /\ summary_request[1][10].content = ErrApi

-----------------------------------------------------------------------------
(* Gateway *)

ErrorDetails ==
    {"API key not configured. Please set your API key in Settings.", "'role'", "'content'"}
        \cup {ExceptionText(o) : o \in BackendOutcomes \ {"text"}}

GatewayFailure(in) ==
    \/ in.api_key = ""
    \/ in.outcome # "text"
    \/ \E k \in DOMAIN in.messages : {"role", "content"} \ DOMAIN in.messages[k] # {}

-----------------------------------------------------------------------------
(* Prompt store *)

ExpectedGet(id) ==
    IF last_set[id].set THEN last_set[id].content
    ELSE IF id \in DefaultIds THEN DEFAULT_PROMPTS[id] ELSE <<>>

\* C17: for every template id, get_prompt returns the content last set for
\* it (by the Save button or by a posted set that holds the id) and the
\* built-in default when the id is not in the stored set or after a reset;
\* after a reset every built-in id reads as its default.
C17_GetReturnsLastSetOrDefault ==
    /\ \A id \in PromptIds : get_prompt(prompts_file, id).value = ExpectedGet(id)
    /\ io.op = "get_prompt" => io.ret = ExpectedGet(io.id)
    /\ io.op \in {"prompts_view.reset", "reset_prompts"} =>
          \A id \in DefaultIds : get_prompt(prompts_file, id).value = DEFAULT_PROMPTS[id]

\* get_prompt fell back to the default of an id the stored set lacks, while
\* the stored set holds an edited text for another id.
C17_Witness ==
    /\ io.op = "get_prompt"
    /\ io.id = SubReportId
    /\ io.ret = DEFAULT_PROMPTS[SubReportId]
    /\ prompts_file.exists
    /\ SubReportId \notin {e.id : e \in prompts_file.prompts}
    /\ last_set[ExpertId] = [set |-> TRUE, content |-> EditedPrompt]
    /\ get_prompt(prompts_file, ExpertId).value = EditedPrompt

-----------------------------------------------------------------------------
(* Turn-prompt compilers *)

IsCompile == io.op \in {"build_meeting_history", "get_meeting_response"}

\* Messages after the seed that are persona-authored or named "You".
SpokenIndices(m) ==
    {k \in 2 .. Len(m.messages) :
        m.messages[k].participant_id # None \/ m.messages[k].participant_name = "You"}

Supplied(user_question) == user_question \notin {None, ""}

\* C19: in a compiled turn prompt the fallback instruction is present exactly
\* when the transcript holds only the seed, the facilitator question exactly
\* when a (non-empty) question was supplied and the transcript holds more than
\* the seed; whichever is present is the last message, after the priming pair
\* and all folded messages, the question is addressed to the acting persona,
\* and at most one of the two is present.
C19_FallbackXorQuestion ==
    IsCompile =>
        LET h == io.history
            m == io.meeting
            fallbacks == {k \in DOMAIN h : h[k] \in {AppFallback, BackendFallback}}
            questions == {k \in DOMAIN h :
                             h[k].content[1] = "The facilitator asks you directly: "}
        IN  /\ fallbacks # {} <=> Len(m.messages) = 1
            /\ questions # {} <=> (Supplied(io.user_question) /\ Len(m.messages) > 1)
            /\ Cardinality(fallbacks \cup questions) <= 1
            /\ \A k \in fallbacks \cup questions :
                  /\ k = Len(h)
                  /\ k = 2 + Cardinality(SpokenIndices(m)) + 1
            /\ \A k \in questions :
                  /\ h[k].role = "user"
                  /\ h[k].content[2] = io.user_question
                  /\ h[k].content[4] = io.person.title

\* The endpoint was posted a question and a meeting without messages: the
\* question follows the priming pair.
C19_Witness ==
    /\ io.op = "get_meeting_response"
    /\ io.user_question = "What would it cost?"
    /\ io.meeting.messages = <<>>
    /\ Len(io.history) = 3
    /\ io.history[3] = FacilitatorQuestion("What would it cost?", io.person)

\* C20: a compiled turn prompt starts with the priming pair, a user-role
\* instruction that carries the persona's description followed by the
\* assistant's acknowledgment; then comes exactly one user-role message
\* "{name} said: {content}\n\nPlease respond as the {title}." per message after
\* the seed that is persona-authored or named "You", in transcript order; no
\* other transcript message is folded, at most one message follows, and the
\* meeting is as it was.
C20_PrimingThenFoldedTranscript ==
    IsCompile =>
        LET h == io.history
            m == io.meeting
            F == SpokenIndices(m)
            Rank(i) == Cardinality({j \in F : j < i})
            folds == {k \in DOMAIN h : Len(h[k].content) = 6 /\ h[k].content[2] = " said: "}
        IN  /\ Len(h) >= 2
            /\ h[1].role = "user"
            /\ \E k \in DOMAIN h[1].content : h[1].content[k] = io.person.description
            /\ h[2] = Acknowledgment
            /\ folds = 3 .. (2 + Cardinality(F))
            /\ \A i \in F :
                  h[3 + Rank(i)] =
                      [role |-> "user",
                       content |-> << m.messages[i].participant_name, " said: ",
                                      m.messages[i].content, "\n\nPlease respond as the ",
                                      io.person.title, "." >>]
            /\ Len(h) <= 3 + Cardinality(F)
            /\ io.meeting_after = io.meeting

\* app.py compiled a prompt for the transcript seed, "You", other, persona:
\* two folded messages, the one named "You" first, and nothing after them.
C20_Witness ==
    /\ io.op = "build_meeting_history"
    /\ Len(io.meeting.messages) = 4
    /\ io.meeting.messages[2] = YouMessage
    /\ io.meeting.messages[3] = OtherMessage
    /\ io.meeting.messages[4] = PersonaMessage
    /\ Len(io.history) = 4
    /\ io.history[3].content[1] = "You"
    /\ io.history[4].content[1] = "Economist"

-----------------------------------------------------------------------------
(* Placeholder substitution *)

\* One pass over the template: every placeholder gives way to its value and
\* the value is not looked at again.
RECURSIVE SinglePass(_, _)
SinglePass(text, binding) ==
    IF text = <<>> THEN <<>>
    ELSE (IF Head(text) \in DOMAIN binding THEN binding[Head(text)] ELSE <<Head(text)>>)
             \o SinglePass(Tail(text), binding)

TurnBinding(person, summary_text, meeting) ==
    [t \in {"{PERSON_DESCRIPTION}", "{SUMMARY}", "{MEETING_DESCRIPTION}"} |->
        CASE t = "{PERSON_DESCRIPTION}" -> <<person.description>>
          [] t = "{SUMMARY}" -> <<summary_text>>
          [] OTHER -> <<meeting.description>>]

SummaryBinding(meeting) ==
    [t \in {"{MEETING_TOPIC}", "{MEETING_DESCRIPTION}", "{TRANSCRIPT}"} |->
        CASE t = "{MEETING_TOPIC}" -> <<meeting.topic>>
          [] t = "{MEETING_DESCRIPTION}" -> <<meeting.description>>
          [] OTHER -> SummaryTranscript(meeting)]

\* C21: the instruction of a turn prompt and the summary prompt are the
\* template with each placeholder replaced once by its value; a value that
\* holds the text of a placeholder appears verbatim.
C21_SinglePassSubstitution ==
    /\ io.op = "turn_prompt" =>
          io.history[1].content =
              SinglePass(io.template, TurnBinding(io.person, io.summary, io.meeting))
    /\ io.op = "summary_request" =>
          io.messages[1].content = SinglePass(io.template, SummaryBinding(io.meeting))

\* The persona's description is the text "{SUMMARY}": the compiled instruction
\* holds the executive summary twice and the description nowhere.
C21_Witness ==
    /\ io.op = "turn_prompt"
    /\ io.person.description = "{SUMMARY}"
    /\ io.summary = ExecutiveSummary
    /\ io.template = DEFAULT_PROMPTS[ExpertId]
    /\ io.history[1].content[2] = ExecutiveSummary
    /\ io.history[1].content[4] = ExecutiveSummary

-----------------------------------------------------------------------------
(* Summary request *)

RECURSIVE ExpectedTranscriptFrom(_, _)
ExpectedTranscriptFrom(m, i) ==
    IF i > Len(m.messages) THEN <<>>
    ELSE (IF i \in SpokenIndices(m)
          THEN << "\n\n[", m.messages[i].participant_name, "]:\n", m.messages[i].content >>
          ELSE <<>>)
             \o ExpectedTranscriptFrom(m, i + 1)

\* C22: the summary request is one user-role message, without priming pair:
\* the template with topic and description filled in and, for the transcript,
\* the concatenation in transcript order of "\n\n[{name}]:\n{content}" for
\* exactly the messages after index 0 that are persona-authored or named
\* "You"; the seed is not part of it and the meeting is as it was.
C22_SummaryRequestIsOneUserMessage ==
    io.op = "summary_request" =>
        LET m == io.meeting
            content == io.messages[1].content
        IN  /\ Len(io.messages) = 1
            /\ io.messages[1].role = "user"
            /\ content =
                  SinglePass(io.template,
                             [t \in {"{MEETING_TOPIC}", "{MEETING_DESCRIPTION}", "{TRANSCRIPT}"} |->
                                 CASE t = "{MEETING_TOPIC}" -> <<m.topic>>
                                   [] t = "{MEETING_DESCRIPTION}" -> <<m.description>>
                                   [] OTHER -> ExpectedTranscriptFrom(m, 2)])
            /\ \A k \in DOMAIN content :
                  /\ content[k] # Acknowledgment.content[1]
                  /\ m.messages # <<>> => content[k] # m.messages[1].participant_name
            /\ io.meeting_after = io.meeting

\* The backend built the request for the transcript seed, "You", other,
\* persona under the default template: the entries of "You" and of the
\* persona, in this order, and nothing of the other message.
C22_Witness ==
    /\ io.op = "summary_request"
    /\ io.service = "backend"
    /\ io.template = DEFAULT_PROMPTS[SubReportId]
    /\ Len(io.meeting.messages) = 4
    /\ io.meeting.messages[2] = YouMessage
    /\ io.meeting.messages[3] = OtherMessage
    /\ io.meeting.messages[4] = PersonaMessage
    /\ Len(io.messages[1].content) = 14
    /\ io.messages[1].content[7] = "You"
    /\ io.messages[1].content[11] = "Economist"

-----------------------------------------------------------------------------
(* Replies that fail shape validation *)

IsGenerate == io.op \in {"generate_people", "generate_research"}

ShapeFailure(reply, fields) ==
    \/ ~reply.array
    \/ ~reply.json
    \/ \E k \in DOMAIN reply.entries : fields \ DOMAIN reply.entries[k] # {}

\* C23: when the reply holds no parsable array or an entry that lacks a
\* required field, generate_people / generate_research report the failure and
\* the roster or the findings, in memory and as saved, are what they were.
C23_ShapeFailureIsReported ==
    (IsGenerate /\ ShapeFailure(io.reply, io.fields)) =>
        /\ io.result.reported
        /\ io.result.after = io.before
        /\ io.result.saved = io.before

\* generate_people of app.py got a reply without an array: the roster is the
\* old one and nothing was reported.
C23_Witness ==
    /\ io.op = "generate_people"
    /\ io.service = "app"
    /\ io.reply = ProseReply
    /\ io.before = Roster
    /\ io.result.after = Roster
    /\ ~io.result.reported

-----------------------------------------------------------------------------
(* Two clients on one session *)

\* C24: under any interleaving of two clients on one session id, a step that
\* is not a reset of meeting i leaves every message of meeting i's persisted
\* transcript in place: the transcript before the step is a prefix of the
\* transcript after it.
C24_NoSavedTurnIsLost ==
    [][\A i \in DOMAIN session_file.meetings :
          \/ io'.op = "reset" /\ io'.meeting = i
          \/ /\ i \in DOMAIN session_file'.meetings
             /\ IsPrefix(session_file.meetings[i].messages,
                         session_file'.meetings[i].messages)]_vars

\* Client b has just saved a turn of meeting 2: the turn of meeting 1 that
\* client a had saved and still holds is no longer in the file.
C24_Witness ==
    /\ io.op = "turn"
    /\ io.client = "b"
    /\ io.meeting = 2
    /\ clients["a"].loaded
    /\ Len(clients["a"].data.meetings[1].messages) = 2
    /\ Len(session_file.meetings[1].messages) = 1
    /\ Len(session_file.meetings[2].messages) = 2

-----------------------------------------------------------------------------
(* The run flag *)

\* C25: whenever no meeting run is executing, is_running_meetings is false:
\* however run_single_meeting ended, the run buttons are enabled.
C25_FlagFalseWhenNoRun ==
    pc \notin RunPcs => ~is_running_meetings

\* A run was stopped between two of its steps: no run is executing and the
\* flag is still set.
C25_Witness ==
    /\ pc = "idle"
    /\ outcome = "interrupted"
    /\ is_running_meetings
    /\ Len(people) > 0
    /\ \E i \in DOMAIN meetings : ~meetings[i].is_complete

\* C26: a run of a meeting whose turn_count is already max_turns (and that is
\* not complete) calls the gateway for no turn, appends no message, leaves
\* turn_count as it is, sends one summary request, and ends with is_complete
\* true and summary_report set.
C26_ResumeAtLastTurnOnlySummarizes ==
    (pc \in RunPcs \cup {"rerun"} /\ run_start.turn_count = max_turns) =>
        LET m == meetings[meeting_idx]
        IN  /\ m.messages = run_start.messages
            /\ m.turn_count = max_turns
            /\ pc \in {"loop", "summary"} => (~called /\ summary_request = <<>>)
            /\ Len(summary_request) <= 1
            /\ pc \in {"finish", "rerun"} =>
                  /\ m.is_complete
                  /\ m.summary_report # None
                  /\ Len(summary_request) = 1

\* After a restart between the save of the last turn and the save of the
\* summary, a run of that meeting has ended: eleven messages as stored, one
\* summary request, the meeting complete.
C26_Witness ==
    /\ pc = "rerun"
    /\ restarts = 1
    /\ run_start.turn_count = max_turns
    /\ Len(run_start.messages) = max_turns + 1
    /\ meetings[meeting_idx].messages = run_start.messages
    /\ meetings[meeting_idx].is_complete
    /\ meetings[meeting_idx].summary_report # None
    /\ Len(summary_request) = 1

-----------------------------------------------------------------------------
(* The two compilers side by side *)

\* C27: for the same persona, meeting, executive summary and templates,
\* build_meeting_history of app.py and get_meeting_response of backend.py
\* without a facilitator question compile the same message sequence.
C27_CompilersAgree ==
    /\ io.op = "build_meeting_history" =>
          io.history = MeetingResponseHistory(prompts_file, io.person, io.meeting,
                                              ExecutiveSummary, None)
    /\ (io.op = "get_meeting_response" /\ ~Supplied(io.user_question)) =>
          io.history = build_meeting_history(prompts_file, io.person, io.meeting,
                                             ExecutiveSummary)

\* app.py compiled the prompt of a seed-only meeting: its third message is
\* not the one backend.py appends.
C27_Witness ==
    /\ io.op = "build_meeting_history"
    /\ Len(io.meeting.messages) = 1
    /\ Len(io.history) = 3
    /\ io.history[3] = AppFallback
    /\ MeetingResponseHistory(prompts_file, io.person, io.meeting,
                              ExecutiveSummary, None)[3] = BackendFallback
    /\ AppFallback # BackendFallback

\* C28: every compiled message sequence ends with a user-role message that
\* follows the priming pair, whatever the meeting: also when no message after
\* the seed is persona-authored or named "You", and when the message list is
\* empty.
C28_HistoryEndsWithUserMessage ==
    IsCompile =>
        /\ Len(io.history) >= 3
        /\ io.history[Len(io.history)].role = "user"

\* backend.py compiled, without a question, the prompt of a meeting that
\* holds the seed and one message of neither kind: the history is the
\* priming pair alone and ends with the assistant's acknowledgment.
C28_Witness ==
    /\ io.op = "get_meeting_response"
    /\ io.user_question = None
    /\ Len(io.meeting.messages) = 2
    /\ io.meeting.messages[2] = OtherMessage
    /\ Len(io.history) = 2
    /\ io.history[2] = Acknowledgment

-----------------------------------------------------------------------------
(* The current session *)

\* C29: current_session_id always names a session of the metadata; after the
\* New action it names the session just created, and it still does after the
\* script run that follows with no user action.
C29_NewSessionStaysCurrent ==
    /\ current_session_id \in SessionIds(sessions_metadata)
    /\ io.op = "new" => current_session_id = io.created
    /\ (io.op \in {"switch", "render"} /\ io.follows = "new") =>
          current_session_id = io.created

\* The session just created bears the name of an older one: the script run
\* after New has switched to the older session.
C29_Witness ==
    /\ io.op = "switch"
    /\ io.follows = "new"
    /\ io.created \in SessionIds(sessions_metadata)
    /\ current_session_id # io.created
    /\ CurrentSession(sessions_metadata, current_session_id).name =
          CurrentSession(sessions_metadata, io.created).name

-----------------------------------------------------------------------------
(* Authentication of the backend routes *)

\* C30: a request to a route under /api other than login, logout and check,
\* from a client with no logged-in user (never logged in, failed login, or
\* logged out), is answered 401, changes nothing in the sessions metadata, the
\* session files, the prompts and the config, and calls no gateway.
C30_UnauthorizedChangesNothing ==
    [][(io'.op \in Routes /\ cookies[io'.client].user = None) =>
          /\ io'.status = 401
          /\ ~io'.called
          /\ UNCHANGED <<sessions_metadata, session_files, prompts_file, config>>]_vars

\* A client that logged in, wrote a session file and logged out asks for the
\* file to be removed and gets 401; the file is still there.
C30_Witness ==
    /\ io.op = "remove_session"
    /\ io.status = 401
    /\ cookies[io.client].last = "logout"
    /\ cookies[io.client].user = None
    /\ SessionId(1) \in DOMAIN session_files
    /\ \E c \in Clients : cookies[c].user # None

====
